---- MODULE Spec2Model ----
(***************************************************************************)
(* Model of the AnonDNS client of src/api.rs: Service::register and        *)
(* Service::update.  Text (String, &str) is a sequence of one-character    *)
(* strings, an Ipv4Addr is the tuple of its four octets.                   *)
(***************************************************************************)
EXTENDS Integers, Sequences, FiniteSets, TLC

VARIABLES
    last,        \* the most recent call: operation, arguments, URL, response, return
    calls,       \* number of calls to register/update made so far
    sent,        \* number of GET requests issued through self.client so far
    repeated,    \* the most recent call had the arguments and response of the one before
    prevReturn   \* when repeated: what the call before returned

vars == <<last, calls, sent, repeated, prevReturn>>

----------------------------------------------------------------------------
(* Bounds of the model *)

MaxCalls == 2
MaxCode == 1

----------------------------------------------------------------------------
(* Text *)

Digits == <<"0", "1", "2", "3", "4", "5", "6", "7", "8", "9">>

IsDigit(c) == \E i \in 1..10 : Digits[i] = c

\* char::to_digit(10)
DigitVal(c) == (CHOOSE i \in 1..10 : Digits[i] = c) - 1

\* u8 as Display: decimal, no padding
RECURSIVE DecimalText(_)
DecimalText(n) ==
    IF n < 10 THEN <<Digits[n + 1]>>
    ELSE DecimalText(n \div 10) \o <<Digits[(n % 10) + 1]>>

\* Ipv4Addr::to_string(): "{}.{}.{}.{}" of the four octets
to_string(addr) ==
    DecimalText(addr[1]) \o <<".">> \o DecimalText(addr[2]) \o <<".">>
        \o DecimalText(addr[3]) \o <<".">> \o DecimalText(addr[4])

----------------------------------------------------------------------------
(* str::parse::<Ipv4Addr>(): the parser of core::net, working on the rest   *)
(* of the input.  A read yields [ok, val, rest].                            *)

NoRead == [ok |-> FALSE, val |-> 0, rest |-> <<>>]

\* the digit loop of read_number(10, Some(3), false) on a u8: checked_mul,
\* checked_add, and at most three digits
RECURSIVE ReadDigits(_, _, _)
ReadDigits(input, result, count) ==
    IF input # <<>> /\ IsDigit(Head(input))
    THEN IF result * 10 > 255 \/ result * 10 + DigitVal(Head(input)) > 255
         THEN [ok |-> FALSE, val |-> 0, count |-> count, rest |-> input]
         ELSE IF count + 1 > 3
              THEN [ok |-> FALSE, val |-> 0, count |-> count, rest |-> input]
              ELSE ReadDigits(Tail(input), result * 10 + DigitVal(Head(input)), count + 1)
    ELSE [ok |-> TRUE, val |-> result, count |-> count, rest |-> input]

ReadNumber(input) ==
    LET has_leading_zero == input # <<>> /\ Head(input) = "0"
        r == ReadDigits(input, 0, 0)
    IN  IF ~r.ok \/ r.count = 0 THEN NoRead
        ELSE IF has_leading_zero /\ r.count > 1 THEN NoRead
        ELSE [ok |-> TRUE, val |-> r.val, rest |-> r.rest]

\* read_separator('.', index, read_number)
ReadSeparated(input, index) ==
    IF index > 0
    THEN IF input # <<>> /\ Head(input) = "." THEN ReadNumber(Tail(input)) ELSE NoRead
    ELSE ReadNumber(input)

\* Ipv4Addr::from_str: [ok, addr]
ParseIpv4(text) ==
    LET r1 == ReadSeparated(text, 0)
        r2 == ReadSeparated(r1.rest, 1)
        r3 == ReadSeparated(r2.rest, 2)
        r4 == ReadSeparated(r3.rest, 3)
    IN  IF Len(text) > 15 THEN [ok |-> FALSE, addr |-> <<>>]
        ELSE IF r1.ok /\ r2.ok /\ r3.ok /\ r4.ok /\ r4.rest = <<>>
             THEN [ok |-> TRUE, addr |-> <<r1.val, r2.val, r3.val, r4.val>>]
             ELSE [ok |-> FALSE, addr |-> <<>>]

----------------------------------------------------------------------------
(* The response envelope (RegisterResponse) and the outcome of a round trip *)

I32Max == 2147483647
I32Min == (-I32Max) - 1

None == [some |-> FALSE, val |-> <<>>]
Some(v) == [some |-> TRUE, val |-> v]

\* struct RegisterResponse: the fields the client reads
RegisterResponse(code, data, token) == [code |-> code, data |-> data, token |-> token]

NoJson == RegisterResponse(0, <<>>, None)

\* what self.client.get(url).send()?.json()? can come to: send() fails,
\* json() fails, or the body decodes to an envelope
SendFailed == [kind |-> "SendErr", json |-> NoJson]
JsonFailed == [kind |-> "JsonErr", json |-> NoJson]
Body(json) == [kind |-> "Body", json |-> json]

----------------------------------------------------------------------------
(* Return values: Result<Token, DnsApiError> and Result<Ipv4Addr, DnsApiError>; *)
(* tag "Panic" is a call that unwinds instead of returning                 *)

Return(tag, code, data, token, addr, cause) ==
    [tag |-> tag, code |-> code, data |-> data, token |-> token, addr |-> addr,
     cause |-> cause]

NoReturn == Return("None", 0, <<>>, <<>>, <<>>, "")
OkToken(token) == Return("Ok", 0, <<>>, token, <<>>, "")
OkAddr(addr) == Return("Ok", 0, <<>>, <<>>, addr, "")
BadRequest(code, data) == Return("BadRequest", code, data, <<>>, <<>>, "")
UnknownErrorCode(code, data) == Return("UnknownErrorCode", code, data, <<>>, <<>>, "")
Panic == Return("Panic", 0, <<>>, <<>>, <<>>, "unwrap")

\* the conversions `?` applies: From<reqwest::Error> and From<AddrParseError>
\* for DnsApiError
FromReqwestError(cause) == Return("Reqwest", 0, <<>>, <<>>, <<>>, cause)
FromAddrParseError == Return("AddressParse", 0, <<>>, <<>>, <<>>, "parse")

----------------------------------------------------------------------------
(* URLs *)

RegisterPrefix ==
    <<"h", "t", "t", "p", "s", ":", "/", "/", "a", "n", "o", "n", "d", "n", "s", ".", "n", "e", "t", "/", "a", "p", "i", "/", "r", "e", "g", "i", "s", "t", "e", "r", "/">>
SetPrefix ==
    <<"h", "t", "t", "p", "s", ":", "/", "/", "a", "n", "o", "n", "d", "n", "s", ".", "n", "e", "t", "/", "a", "p", "i", "/", "s", "e", "t", "/">>
DomainSuffix ==
    <<".", "a", "n", "o", "n", "d", "n", "s", ".", "n", "e", "t">>
RecordPath ==
    <<"/", "a", "/">>

\* format!("https://anondns.net/api/register/{}.anondns.net/a/{}", ..)
RegisterUrl(subdomain, target) ==
    RegisterPrefix \o subdomain \o DomainSuffix \o RecordPath \o to_string(target)

\* the token and the subdomain in each other's place
UpdateUrlSwapped(subdomain, target, token) ==
    SetPrefix \o token \o DomainSuffix \o <<"/">> \o subdomain \o RecordPath
        \o to_string(target)

\* format!("https://anondns.net/api/set/{}.anondns.net/{}/a/{}", ..)
UpdateUrl(subdomain, target, token) ==
    SetPrefix \o subdomain \o DomainSuffix \o <<"/">> \o token \o RecordPath
        \o to_string(target)

----------------------------------------------------------------------------
(* Service::register and Service::update *)

\* a client that tries once more when send() failed
RequestsRetried(url, resp) == IF resp.kind = "SendErr" THEN 2 ELSE 1

\* requests issued by one self.client.get(url).send()
Requests(url, resp) == 1

\* the data field returned in place of the token
RegisterMatchData(json) ==
    IF json.code = 0
    THEN OkToken(json.data)
    ELSE IF json.code = 1 THEN BadRequest(1, json.data)
    ELSE UnknownErrorCode(json.code, json.data)

\* every code that is not positive taken for success
RegisterMatchSigned(json) ==
    IF json.code <= 0
    THEN IF json.token.some THEN OkToken(json.token.val) ELSE Panic
    ELSE IF json.code = 1 THEN BadRequest(1, json.data)
    ELSE UnknownErrorCode(json.code, json.data)

\* match json.code of register
RegisterMatch(json) ==
    IF json.code = 0
    THEN IF json.token.some THEN OkToken(json.token.val) ELSE Panic
    ELSE IF json.code = 1 THEN BadRequest(1, json.data)
    ELSE UnknownErrorCode(json.code, json.data)

\* every positive code taken for the bad-request code
UpdateMatchPositive(json) ==
    IF json.code = 0
    THEN LET parsed == ParseIpv4(json.data)
         IN  IF parsed.ok THEN OkAddr(parsed.addr) ELSE FromAddrParseError
    ELSE IF json.code >= 1 THEN BadRequest(1, json.data)
    ELSE UnknownErrorCode(json.code, json.data)

\* json.data.parse().unwrap() in place of json.data.parse()?
UpdateMatchUnwrap(json) ==
    IF json.code = 0
    THEN LET parsed == ParseIpv4(json.data)
         IN  IF parsed.ok THEN OkAddr(parsed.addr) ELSE Panic
    ELSE IF json.code = 1 THEN BadRequest(1, json.data)
    ELSE UnknownErrorCode(json.code, json.data)

\* match json.code of update
UpdateMatch(json) ==
    IF json.code = 0
    THEN LET parsed == ParseIpv4(json.data)
         IN  IF parsed.ok THEN OkAddr(parsed.addr) ELSE FromAddrParseError
    ELSE IF json.code = 1 THEN BadRequest(1, json.data)
    ELSE UnknownErrorCode(json.code, json.data)

\* .json().unwrap() in place of .json()?
RegisterReturnUnwrap(subdomain, target, resp) ==
    IF resp.kind = "SendErr" THEN FromReqwestError("send")
    ELSE IF resp.kind = "JsonErr" THEN Panic
    ELSE RegisterMatch(resp.json)

\* what register returns on a round trip that comes to resp
RegisterReturn(subdomain, target, resp) ==
    IF resp.kind = "SendErr" THEN FromReqwestError("send")
    ELSE IF resp.kind = "JsonErr" THEN FromReqwestError("json")
    ELSE RegisterMatch(resp.json)

\* the requested target returned in place of the address the service confirmed
UpdateReturnEcho(subdomain, target, token, resp) ==
    IF resp.kind = "SendErr" THEN FromReqwestError("send")
    ELSE IF resp.kind = "JsonErr" THEN FromReqwestError("json")
    ELSE IF resp.json.code = 0 /\ ParseIpv4(resp.json.data).ok THEN OkAddr(target)
    ELSE UpdateMatch(resp.json)

\* a client that remembers the address it last set and refuses to set it again
UpdateReturnRemembered(subdomain, target, token, resp) ==
    IF last.op = "update" /\ last.ret.tag = "Ok" /\ last.ret.addr = target
    THEN BadRequest(1, <<>>)
    ELSE IF resp.kind = "SendErr" THEN FromReqwestError("send")
    ELSE IF resp.kind = "JsonErr" THEN FromReqwestError("json")
    ELSE UpdateMatch(resp.json)

\* what update returns on a round trip that comes to resp
UpdateReturn(subdomain, target, token, resp) ==
    IF resp.kind = "SendErr" THEN FromReqwestError("send")
    ELSE IF resp.kind = "JsonErr" THEN FromReqwestError("json")
    ELSE UpdateMatch(resp.json)

Call(op, subdomain, target, token, url, resp, ret) ==
    [op |-> op, subdomain |-> subdomain, target |-> target, token |-> token,
     url |-> url, resp |-> resp, ret |-> ret]

NoCall == Call("none", <<>>, <<0, 0, 0, 0>>, <<>>, <<>>, SendFailed, NoReturn)

SameRequest(c1, c2) ==
    /\ c1.op = c2.op
    /\ c1.subdomain = c2.subdomain
    /\ c1.target = c2.target
    /\ c1.token = c2.token
    /\ c1.resp = c2.resp

\* the process is running: no call has been made that unwound
Running == last.ret.tag # "Panic"

Record(call) ==
    /\ last' = call
    /\ calls' = calls + 1
    /\ sent' = sent + Requests(call.url, call.resp)
    /\ repeated' = SameRequest(call, last)
    /\ prevReturn' = IF SameRequest(call, last) THEN last.ret ELSE NoReturn

----------------------------------------------------------------------------
(* Inputs *)

Subdomains == { <<>>, <<"f", "o", "o">> }
Targets == { <<127, 0, 0, 1>>, <<203, 0, 113, 5>> }
Tokens == { <<>>, <<"T">> }
Codes == (-MaxCode .. MaxCode) \cup {7, I32Min, I32Max}
ConfirmedAddrs == Targets
Malformed ==
    { <<>>,
      <<"n", "o", "t", "-", "a", "n", "-", "i", "p">>,
      <<"2", "5", "6", ".", "0", ".", "0", ".", "1">>,
      <<"0", "1", ".", "2", ".", "3", ".", "4">> }
DataTexts == { to_string(a) : a \in ConfirmedAddrs } \cup Malformed
IssuedTokens == { <<"T">> }
TokenFields == {None} \cup { Some(t) : t \in IssuedTokens }
Responses ==
    {SendFailed, JsonFailed}
        \cup { Body(RegisterResponse(c, d, t)) : c \in Codes, d \in DataTexts, t \in TokenFields }

----------------------------------------------------------------------------
(* The state machine: a caller making calls one after the other *)

Init ==
    /\ last = NoCall
    /\ calls = 0
    /\ sent = 0
    /\ repeated = FALSE
    /\ prevReturn = NoReturn

Register(subdomain, target, resp) ==
    /\ Running
    /\ calls < MaxCalls
    /\ Record(Call("register", subdomain, target, <<>>, RegisterUrl(subdomain, target),
                   resp, RegisterReturn(subdomain, target, resp)))

Update(subdomain, target, token, resp) ==
    /\ Running
    /\ calls < MaxCalls
    /\ Record(Call("update", subdomain, target, token, UpdateUrl(subdomain, target, token),
                   resp, UpdateReturn(subdomain, target, token, resp)))

Next ==
    \/ \E s \in Subdomains, a \in Targets, r \in Responses : Register(s, a, r)
    \/ \E s \in Subdomains, a \in Targets, t \in Tokens, r \in Responses : Update(s, a, t, r)

Spec == Init /\ [][Next]_vars

----------------------------------------------------------------------------
(* Properties *)

Called == last.op # "none"
Decoded == Called /\ last.resp.kind = "Body"
json == last.resp.json

\* the call returned Err(..): it returned, and not Ok(..)
ReturnedError == Called /\ last.ret.tag \notin {"Ok", "Panic"}

\* the text of an IPv4 address, said without the parser: four fields between
\* three dots, each one to three digits with no leading zero and at most 255
RECURSIVE Fields(_)
Fields(text) ==
    IF \E i \in 1..Len(text) : text[i] = "."
    THEN LET i == CHOOSE k \in 1..Len(text) :
                      text[k] = "." /\ \A j \in 1..(k - 1) : text[j] # "."
         IN  <<SubSeq(text, 1, i - 1)>> \o Fields(SubSeq(text, i + 1, Len(text)))
    ELSE <<text>>

RECURSIVE NumVal(_)
NumVal(f) ==
    IF f = <<>> THEN 0 ELSE NumVal(SubSeq(f, 1, Len(f) - 1)) * 10 + DigitVal(f[Len(f)])

IsOctetText(f) ==
    /\ Len(f) \in 1..3
    /\ \A i \in 1..Len(f) : IsDigit(f[i])
    /\ Len(f) > 1 => f[1] # "0"
    /\ NumVal(f) <= 255

IsIpv4Text(text) ==
    /\ Len(Fields(text)) = 4
    /\ \A i \in 1..4 : IsOctetText(Fields(text)[i])

OctetsOf(text) == [i \in 1..4 |-> NumVal(Fields(text)[i])]

\* C1: a register call whose response decodes to code 0 with token T returns
\* Ok(T), the token unmodified, and no error.
C1_RegisterReturnsToken ==
    (Decoded /\ last.op = "register" /\ json.code = 0 /\ json.token.some)
        => (last.ret.tag = "Ok" /\ last.ret.token = json.token.val)

C1_Witness ==
    /\ Decoded /\ last.op = "register" /\ last.subdomain = <<"f", "o", "o">>
    /\ json.code = 0 /\ json.token = Some(<<"T">>)
    /\ last.ret.tag = "Ok" /\ last.ret.token = <<"T">>

\* C2: on register and on update a decoded nonzero code c with data m gives an
\* error carrying exactly (c, m), tagged BadRequest iff c = 1 and
\* UnknownErrorCode otherwise; a BadRequest never carries a code other than 1
\* and an UnknownErrorCode never carries 0 or 1.
C2_NonzeroCodeError ==
    /\ (Decoded /\ json.code # 0) =>
          /\ last.ret.tag \in {"BadRequest", "UnknownErrorCode"}
          /\ last.ret.code = json.code
          /\ last.ret.data = json.data
          /\ last.ret.tag = "BadRequest" <=> json.code = 1
    /\ last.ret.tag = "BadRequest" => last.ret.code = 1
    /\ last.ret.tag = "UnknownErrorCode" => last.ret.code \notin {0, 1}

C2_Witness ==
    /\ Decoded /\ last.op = "update" /\ json.code = I32Min
    /\ last.ret.tag = "UnknownErrorCode" /\ last.ret.code = I32Min
    /\ last.ret.data = <<"n", "o", "t", "-", "a", "n", "-", "i", "p">>

\* C3: an update whose response decodes to code 0 with data the text of an IPv4
\* address d returns Ok(d), the address of the response, also when d is not the
\* requested target.
C3_UpdateReturnsConfirmed ==
    (Decoded /\ last.op = "update" /\ json.code = 0 /\ IsIpv4Text(json.data))
        => (last.ret.tag = "Ok" /\ last.ret.addr = OctetsOf(json.data))

C3_Witness ==
    /\ Decoded /\ last.op = "update" /\ json.code = 0
    /\ last.target = <<127, 0, 0, 1>>
    /\ json.data = <<"2", "0", "3", ".", "0", ".", "1", "1", "3", ".", "5">>
    /\ last.ret.tag = "Ok" /\ last.ret.addr = <<203, 0, 113, 5>>

\* C4: an update whose response decodes to code 0 with data that is not the text
\* of an IPv4 address returns an AddressParse error: no panic, no success, no
\* error of another kind.
C4_MalformedAddressError ==
    (Decoded /\ last.op = "update" /\ json.code = 0 /\ ~IsIpv4Text(json.data))
        => last.ret.tag = "AddressParse"

C4_Witness ==
    /\ Decoded /\ last.op = "update" /\ json.code = 0
    /\ json.data = <<"n", "o", "t", "-", "a", "n", "-", "i", "p">>
    /\ last.ret.tag = "AddressParse"

\* C5: every call, whatever the round trip comes to, returns a success value or
\* one error of the kinds BadRequest, UnknownErrorCode, Transport (Reqwest),
\* AddressParse; none ends in a fault outside the result.
C5_AlwaysReturns ==
    Called => last.ret.tag \in {"Ok", "BadRequest", "UnknownErrorCode", "Reqwest", "AddressParse"}

\* C6 as stated: a call succeeds if and only if the decoded code is 0.
C6_SuccessIffZero ==
    Decoded => (last.ret.tag = "Ok" <=> json.code = 0)

\* C6 amended: a decoded nonzero code always gives a failure return and only a
\* decoded 0 gives a success return; on code 0 register returns the token when
\* the response has one and panics when it has none, and update succeeds
\* exactly when the data is the text of an IPv4 address and returns an error
\* otherwise.
C6_ZeroAndNonzero ==
    Decoded =>
        /\ json.code # 0 => ReturnedError
        /\ last.ret.tag = "Ok" => json.code = 0
        /\ (json.code = 0 /\ last.op = "register") =>
              /\ json.token.some => last.ret.tag = "Ok"
              /\ ~json.token.some => last.ret.tag = "Panic"
        /\ (json.code = 0 /\ last.op = "update") =>
              /\ IsIpv4Text(json.data) => last.ret.tag = "Ok"
              /\ ~IsIpv4Text(json.data) => ReturnedError

C6_Witness ==
    /\ Decoded /\ last.op = "update" /\ json.code = 0
    /\ json.data = <<"2", "5", "6", ".", "0", ".", "0", ".", "1">>
    /\ ReturnedError

\* C7: on register and on update a request that cannot be sent or a body that
\* does not decode gives a Transport (Reqwest) error and nothing else.
C7_TransportError ==
    (Called /\ last.resp.kind \in {"SendErr", "JsonErr"}) => last.ret.tag = "Reqwest"

C7_Witness ==
    /\ last.op = "register" /\ last.resp.kind = "JsonErr" /\ last.ret.tag = "Reqwest"
    /\ calls = 2

\* C8: each call issues exactly one request: after n calls n requests have been
\* sent, whatever the calls came to.
C8_OneRequestPerCall ==
    sent = calls

C8_Witness ==
    /\ calls = 2 /\ sent = 2
    /\ last.resp.kind = "SendErr" /\ last.ret.tag = "Reqwest"

C10_UrlExact ==
    LET u == last.url
        s == last.subdomain
        t == last.token
        n == Len(last.subdomain)
        k == Len(last.token)
    IN  /\ last.op = "register" =>
              /\ SubSeq(u, 1, 33) = RegisterPrefix
              /\ SubSeq(u, 34, 33 + n) = s
              /\ SubSeq(u, 34 + n, 48 + n) = DomainSuffix \o RecordPath
              /\ IsIpv4Text(SubSeq(u, 49 + n, Len(u)))
              /\ OctetsOf(SubSeq(u, 49 + n, Len(u))) = last.target
        /\ last.op = "update" =>
              /\ SubSeq(u, 1, 28) = SetPrefix
              /\ SubSeq(u, 29, 28 + n) = s
              /\ SubSeq(u, 29 + n, 41 + n) = DomainSuffix \o <<"/">>
              /\ SubSeq(u, 42 + n, 41 + n + k) = t
              /\ SubSeq(u, 42 + n + k, 44 + n + k) = RecordPath
              /\ IsIpv4Text(SubSeq(u, 45 + n + k, Len(u)))
              /\ OctetsOf(SubSeq(u, 45 + n + k, Len(u))) = last.target
        /\ (last.op = "register" /\ s = <<"f", "o", "o">> /\ last.target = <<127, 0, 0, 1>>) =>
              u = <<"h", "t", "t", "p", "s", ":", "/", "/", "a", "n", "o", "n", "d", "n", "s", ".", "n", "e", "t", "/", "a", "p", "i", "/", "r", "e", "g", "i", "s", "t", "e", "r", "/", "f", "o", "o", ".", "a", "n", "o", "n", "d", "n", "s", ".", "n", "e", "t", "/", "a", "/", "1", "2", "7", ".", "0", ".", "0", ".", "1">>
        /\ (last.op = "update" /\ s = <<"f", "o", "o">> /\ t = <<"T">> /\ last.target = <<203, 0, 113, 5>>) =>
              u = <<"h", "t", "t", "p", "s", ":", "/", "/", "a", "n", "o", "n", "d", "n", "s", ".", "n", "e", "t", "/", "a", "p", "i", "/", "s", "e", "t", "/", "f", "o", "o", ".", "a", "n", "o", "n", "d", "n", "s", ".", "n", "e", "t", "/", "T", "/", "a", "/", "2", "0", "3", ".", "0", ".", "1", "1", "3", ".", "5">>
        /\ (last.op = "update" /\ s = <<>> /\ t = <<>> /\ last.target = <<127, 0, 0, 1>>) =>
              u = <<"h", "t", "t", "p", "s", ":", "/", "/", "a", "n", "o", "n", "d", "n", "s", ".", "n", "e", "t", "/", "a", "p", "i", "/", "s", "e", "t", "/", ".", "a", "n", "o", "n", "d", "n", "s", ".", "n", "e", "t", "/", "/", "a", "/", "1", "2", "7", ".", "0", ".", "0", ".", "1">>

C10_Witness ==
    /\ last.op = "update" /\ last.subdomain = <<>> /\ last.token = <<"T">>
    /\ last.target = <<203, 0, 113, 5>>
    /\ SubSeq(last.url, 29, 41) = <<".", "a", "n", "o", "n", "d", "n", "s", ".", "n", "e", "t", "/">>
    /\ sent = calls /\ calls > 0

====
